---- MODULE Spec2Model ----
(***************************************************************************)
(* TidalCycles MCP server: the request dispatcher (channel store, pattern  *)
(* history, output sink) and the GHCi subprocess manager of                *)
(* TidalMCPServer (src/unnamed/part_006).                                   *)
(*                                                                         *)
(* Node runs the server on one thread: a handler runs without interruption *)
(* up to its next await on real I/O (log append, file write, startup wait, *)
(* stdin write acknowledgment).  Each action below is one such run.        *)
(* The timestamps of the channel store and of the history are not          *)
(* modelled: no decision in the code reads them.                           *)
(*                                                                         *)
(* The WebSocket transport (src/src/websocket-transport.ts): the heartbeat *)
(* of WebSocketClient and the reconnect schedule of                        *)
(* WebSocketClientTransport, each with its own specification.              *)
(***************************************************************************)
EXTENDS Integers, Sequences, FiniteSets, TLC

----------------------------------------------------------------------------
(* Bounds of the model *)

\* evaluate calls are accepted while the history holds fewer entries
MaxHist == 2
\* subprocesses spawned in one run of the server
MaxSpawn == 3
\* steps of the clock in the life of one WebSocket connection
MaxTicks == 12
\* sockets that one WebSocket client transport opens
MaxSockets == 7

(* Program constants *)

\* the constructor creates d1..d9
NumChannels == 9
\* getHistory(limit = 10)
DefaultLimit == 10
\* WebSocketClient.startHeartbeat: setInterval(..., 30000)
PingIntervalMs == 30000
\* WebSocketClient.startHeartbeat: Date.now() - this.lastPing > 60000
StaleAfterMs == 60000
\* WebSocketClientTransport.maxReconnectDelay
MaxReconnectDelay == 30000
\* WebSocketClientTransport.scheduleReconnect: 1000 * Math.pow(2, attempts)
BaseReconnectDelay == 1000

----------------------------------------------------------------------------
(* Values *)

\* JavaScript's undefined, as a value no caller can send as a string
Undef == "<undefined>"

\* `${v}` : template-literal conversion
Str(v) == IF v = Undef THEN "undefined" ELSE v

Min(a, b) == IF a < b THEN a ELSE b
Max(a, b) == IF a > b THEN a ELSE b

\* the slots of concurrently running tool calls
Calls == {1, 2}

\* a file-mode session's caller awaits each call before the next
FileCalls == {1}

\* the slots of the calls followed through the life of the host process
LifeCalls == {1}

ChannelName(i) == "d" \o ToString(i)

\* what the tool schemas declare as channel enum
ChannelEnum == {ChannelName(i) : i \in 1..NumChannels}

----------------------------------------------------------------------------
(* The channel Map, in insertion order, and Array operations *)

ChannelState(channel, pattern, active) ==
    [channel |-> channel, pattern |-> pattern, active |-> active]

\* constructor: all channels inactive
InitChannels == [i \in 1..NumChannels |-> ChannelState(ChannelName(i), "", FALSE)]

MapHas(m, k) == \E i \in 1..Len(m) : m[i].channel = k

MapIndex(m, k) == CHOOSE i \in 1..Len(m) : m[i].channel = k

\* Map.prototype.set: an existing key keeps its place, a new key goes last
MapSet(m, k, v) ==
    IF MapHas(m, k) THEN [m EXCEPT ![MapIndex(m, k)] = v] ELSE Append(m, v)

\* Array.prototype.slice(start) for an integer start
ArraySlice(s, start) ==
    LET k == IF start < 0 THEN Max(Len(s) + start, 0) ELSE Min(start, Len(s))
    IN  [i \in 1..(Len(s) - k) |-> s[k + i]]

\* a getHistory that forgets .reverse()
ArrayReverse_Forgotten(s) == s

\* Array.prototype.reverse
ArrayReverse(s) == [i \in 1..Len(s) |-> s[Len(s) + 1 - i]]

----------------------------------------------------------------------------
(* Tool requests and responses *)

\* request.params.arguments; present = FALSE when the call carries none
Args(present, channel, pattern, hasLimit, limit) ==
    [present |-> present, channel |-> channel, pattern |-> pattern,
     hasLimit |-> hasLimit, limit |-> limit]

NoArgs == Args(FALSE, Undef, Undef, FALSE, 0)

Request(name, args) == [name |-> name, args |-> args]

NoRequest == Request("", NoArgs)

\* { content: [{ type: "text", text }] }, kept structured: what the text
\* reports (kind) and the items it lists (body)
Response(isError, kind, body) == [isError |-> isError, kind |-> kind, body |-> body]

NoResponse == Response(FALSE, "", << >>)

\* the catch of the CallToolRequestSchema handler: `Error: ${errorMessage}`
ErrorResponse(message) == Response(TRUE, "error", <<message>>)

MissingArguments == "Missing arguments"
UnknownTool(name) == "Unknown tool: " \o name
CurrentlyReconnecting == "GHCi is currently reconnecting, please try again in a moment"
StdinNotAvailable == "GHCi stdin not available after reconnection"
WriteFailed == "write failed"
FailedToReconnect == "Failed to reconnect to GHCi: Error: spawn"

\* a dispatcher that sends get-state through the path of the mutating tools
MutatingTools_WithReads ==
    {"tidal_eval", "tidal_hush", "tidal_silence", "tidal_solo", "tidal_unsolo", "tidal_get_state"}

\* the tools whose handler awaits a log append, then mutates and submits
MutatingTools == {"tidal_eval", "tidal_hush", "tidal_silence", "tidal_solo", "tidal_unsolo"}

\* the command each mutating tool submits to the sink
FullPattern(channel, pattern) == Str(channel) \o " $ " \o Str(pattern)

CommandOf(req) ==
    CASE req.name = "tidal_eval" -> FullPattern(req.args.channel, req.args.pattern)
      [] req.name = "tidal_hush" -> "hush"
      [] req.name = "tidal_silence" -> "silence " \o Str(req.args.channel)
      [] req.name = "tidal_solo" -> "solo $ " \o Str(req.args.channel)
      [] req.name = "tidal_unsolo" -> "unsolo $ d1"
      [] OTHER -> ""

\* writeToTidalFile: the comment header, with the ISO timestamp left open
FileHeader == "-- TidalCycles MCP Server\n-- Auto-generated at <timestamp>\n\n"

\* a writeToTidalFile that appends to the file
WriteFile_Append(old, code) == old \o code \o "\n"

\* writeToTidalFile: fs.writeFile replaces the content old of the file
WriteFile(old, code) == FileHeader \o code \o "\n"

\* the confirmation each mutating tool returns once its sink write resolved
SuccessResponse(req) ==
    CASE req.name = "tidal_eval" ->
            Response(FALSE, "evaluated", <<Str(req.args.channel), CommandOf(req)>>)
      [] req.name = "tidal_hush" -> Response(FALSE, "hushed", << >>)
      [] req.name = "tidal_silence" -> Response(FALSE, "silenced", <<Str(req.args.channel)>>)
      [] req.name = "tidal_solo" -> Response(FALSE, "soloed", <<Str(req.args.channel)>>)
      [] req.name = "tidal_unsolo" -> Response(FALSE, "unsoloed", << >>)
      [] OTHER -> NoResponse

----------------------------------------------------------------------------
(* The store updates of the mutating tools and the two read tools *)

IsActive(c) == c.active

\* an evalPattern that stores the pattern and leaves the channel inactive
EvalChannels_Inactive(m, channel, pattern) == MapSet(m, channel, ChannelState(channel, pattern, FALSE))

\* evalPattern: this.channels.set(channel, {channel, pattern, active: true})
EvalChannels(m, channel, pattern) == MapSet(m, channel, ChannelState(channel, pattern, TRUE))

\* an evalPattern that keeps the history as a ring of one entry
EvalHistory_Evicting(h, channel, pattern) == <<[channel |-> channel, pattern |-> pattern]>>

\* evalPattern: this.patternHistory.push({channel, pattern})
EvalHistory(h, channel, pattern) == Append(h, [channel |-> channel, pattern |-> pattern])

\* a hush that flips the active flag of every entry
HushChannels_Toggle(m) == [i \in 1..Len(m) |-> ChannelState(m[i].channel, "", ~m[i].active)]

\* a hush that loops over d1..d9 instead of over the entries of the Map
HushChannels_EnumOnly(m) ==
    [i \in 1..Len(m) |-> IF i <= NumChannels THEN ChannelState(m[i].channel, "", FALSE) ELSE m[i]]

\* hush: every entry of the Map is cleared
HushChannels(m) == [i \in 1..Len(m) |-> ChannelState(m[i].channel, "", FALSE)]

\* a silence that clears the flag and keeps the pattern
SilenceChannels_KeepsPattern(m, channel) ==
    IF MapHas(m, channel)
    THEN [m EXCEPT ![MapIndex(m, channel)].active = FALSE]
    ELSE m

\* silence: the entry, when there is one, is cleared
SilenceChannels(m, channel) ==
    IF MapHas(m, channel)
    THEN [m EXCEPT ![MapIndex(m, channel)] = ChannelState(m[MapIndex(m, channel)].channel, "", FALSE)]
    ELSE m

\* getState: the active entries in Map order, "No active patterns." when none
ActiveChannels(m) ==
    LET F[i \in 0..Len(m)] ==
            IF i = 0 THEN << >>
            ELSE IF IsActive(m[i]) THEN Append(F[i - 1], m[i]) ELSE F[i - 1]
    IN  F[Len(m)]

GetState(m) ==
    LET active == ActiveChannels(m)
    IN  Response(FALSE, "state",
                 [i \in 1..Len(active) |->
                    [channel |-> Str(active[i].channel), pattern |-> Str(active[i].pattern)]])

\* getHistory: slice(-limit).reverse(), each line numbered limit - idx
GetHistory(h, args) ==
    LET limit == IF args.hasLimit THEN args.limit ELSE DefaultLimit
        recent == ArrayReverse(ArraySlice(h, 0 - limit))
    IN  Response(FALSE, "history",
                 [i \in 1..Len(recent) |->
                    [n |-> limit - (i - 1),
                     channel |-> Str(recent[i].channel),
                     pattern |-> Str(recent[i].pattern)]])

----------------------------------------------------------------------------
(* State *)

VARIABLES
    useGhci,          \* config.useGhci, read once at startup
    phase,            \* the host process: "constructed", "starting" (run() awaits
                      \* startGhci), "connected", "closing" (cleanup ran, the
                      \* SIGINT handler awaits server.close()), "exited"
                      \* (process.exit(0)) or "crashed" (uncaught exception)
    canSpawn,         \* whether spawn(ghciPath, ...) can start the executable now
    channels,         \* this.channels
    patternHistory,   \* this.patternHistory
    tidalFile,        \* the content of the output file, "" before the first write
    calls,            \* the tool calls in flight, by slot
    ghciProcess,      \* this.ghciProcess: a subprocess number, 0 for undefined
    ghciStreamAlive,  \* this.ghciStreamAlive
    isReconnecting,   \* this.isReconnecting
    procs,            \* the subprocesses spawned so far, by number
    nextPid,          \* how many subprocesses were spawned
    \* WebSocketClient, the server's wrapper of one accepted connection
    now,              \* Date.now(), in ms since the connection was accepted
    readyState,       \* this.ws.readyState
    lastPing,         \* this.lastPing
    pingInterval,     \* this.pingInterval: when its callback is due, or Cleared
    pings,            \* when this.ws.ping() was called, in order
    \* WebSocketClientTransport
    ws,               \* this.ws.readyState, "none" while this.ws is undefined
    connected,        \* this.connected
    reconnectAttempts, \* this.reconnectAttempts
    reconnectTimer,   \* this.reconnectTimer, NoTimer while undefined
    timers,           \* the reconnect timeouts that are pending
    sockets,          \* how many times connect() ran new WebSocket(url)
    heartbeats,       \* the heartbeat intervals of startHeartbeat not yet cleared
    closeCalled       \* whether close() has been called

hostVars == <<useGhci, phase, canSpawn, channels, patternHistory, tidalFile, calls,
              ghciProcess, ghciStreamAlive, isReconnecting, procs, nextPid>>

heartbeatVars == <<now, readyState, lastPing, pingInterval, pings>>

clientVars == <<ws, connected, reconnectAttempts, reconnectTimer, timers, sockets,
                heartbeats, closeCalled>>

wsVars == <<heartbeatVars, clientVars>>

vars == <<hostVars, wsVars>>

storeVars == <<channels, patternHistory>>
ghciVars == <<ghciProcess, ghciStreamAlive, isReconnecting, procs, nextPid>>

\* one tool call: where its handler is suspended (pc), its request, the
\* subprocess whose stdin its write went to (pid), the data it handed to
\* stdin.write (text), the subprocesses it spawned (spawns), whether its
\* append to the session log succeeded (logOk) and its response
Call(pc, req, pid, spawns, resp) ==
    [pc |-> pc, req |-> req, pid |-> pid, text |-> "", spawns |-> spawns,
     logOk |-> TRUE, resp |-> resp]

IdleCall == Call("idle", NoRequest, 0, 0, NoResponse)

\* a ChildProcess: state "none" (not spawned), "failed" (the spawn failed, its
\* 'error' event is queued), "running", "killed" (kill() was called on it,
\* ChildProcess.killed is set, it has not exited yet) or "exited"; stdin is
\* "open", "ended" (stdin.end() was called), "destroyed" (stdin.destroyed,
\* close not yet emitted) or "closed"; signals is what the server asked of it,
\* in order: "end" for stdin.end(), "kill" for kill().  The handle this.ghciProcess never names an exited subprocess (its
\* exit handler clears the handle), so killed is only ever read of a subprocess
\* that has not exited.
Proc(state, stdin) == [state |-> state, stdin |-> stdin, signals |-> << >>]

Pids == 1..MaxSpawn

\* clearInterval(this.pingInterval) was called
Cleared == 0 - 1

\* new WebSocketClient(clientId, ws, this): the connection is open, lastPing
\* is Date.now() and startHeartbeat has set the interval
InitWebSocketClient ==
    /\ now = 0
    /\ readyState = "OPEN"
    /\ lastPing = 0
    /\ pingInterval = PingIntervalMs
    /\ pings = << >>

\* this.reconnectTimer while no timeout was ever set
NoTimer == [id |-> 0, delay |-> 0]

\* new WebSocketClientTransport(url)
InitClientTransport ==
    /\ ws = "none"
    /\ connected = FALSE
    /\ reconnectAttempts = 0
    /\ reconnectTimer = NoTimer
    /\ timers = {}
    /\ sockets = 0
    /\ heartbeats = 0
    /\ closeCalled = FALSE

InitCommon ==
    /\ InitWebSocketClient
    /\ InitClientTransport
    /\ phase = "constructed"
    /\ channels = InitChannels
    /\ patternHistory = << >>
    /\ tidalFile = ""
    /\ calls = [c \in Calls |-> IdleCall]
    /\ ghciProcess = 0
    /\ ghciStreamAlive = FALSE
    /\ isReconnecting = FALSE
    /\ procs = [p \in Pids |-> Proc("none", "open")]
    /\ nextPid = 0

\* the host process runs, and no process.nextTick callback is queued: the
\* 'error' event of a failed spawn is emitted from the tick queue, ahead of
\* every other callback and continuation
EventLoopTurn ==
    /\ phase \notin {"exited", "crashed"}
    /\ \A p \in Pids : procs[p].state # "failed"

\* TIDAL_USE_GHCI unset: file mode
Init == useGhci = FALSE /\ canSpawn = TRUE /\ InitCommon

\* TIDAL_USE_GHCI=true: subprocess mode
InitGhci == useGhci = TRUE /\ canSpawn = TRUE /\ InitCommon

\* the call in slot c ends with response resp, which waits to be sent
Respond(c, call, resp) ==
    calls' = [calls EXCEPT ![c] = [IdleCall EXCEPT !.pc = "done", !.req = call.req,
                                                    !.logOk = call.logOk, !.resp = resp]]

----------------------------------------------------------------------------
(* The subprocess manager *)

\* a write that leaves out the newline
WriteData_NoNewline(code) == code

\* sendToGhci: stdin.write(code + "\n", ...)
WriteData(code) == code \o "\n"

\* isGhciHealthy
IsGhciHealthy ==
    /\ ghciStreamAlive
    /\ ghciProcess # 0
    /\ procs[ghciProcess].stdin \in {"open", "ended"}
    /\ procs[ghciProcess].state # "killed"

\* a startGhci that returns at once whenever it holds a handle
AlreadyRunning_AnyHandle == ghciProcess # 0

\* startGhci returns at once: "Already running and alive"
AlreadyRunning == ghciProcess # 0 /\ ghciStreamAlive

\* startGhci up to its await, when it does not return at once: the old handle
\* is killed and dropped, a subprocess is spawned and marked alive
StartGhciSpawn ==
    /\ nextPid < MaxSpawn
    /\ nextPid' = nextPid + 1
    /\ procs' = [p \in Pids |->
                    IF p = nextPid + 1
                    THEN Proc(IF canSpawn THEN "running" ELSE "failed", "open")
                    ELSE IF p = ghciProcess
                    THEN [procs[p] EXCEPT !.state = "killed",
                                          !.signals = Append(@, "kill")]
                    ELSE procs[p]]
    /\ ghciProcess' = nextPid + 1
    /\ ghciStreamAlive' = TRUE

\* a sendToGhci without the isReconnecting check
SendToGhci_NoGuard(c, call) ==
    IF IsGhciHealthy
    THEN /\ calls' = [calls EXCEPT ![c] = [call EXCEPT !.pc = "write", !.pid = ghciProcess,
                                     !.text = WriteData(CommandOf(call.req))]]
         /\ UNCHANGED ghciVars
    ELSE IF AlreadyRunning
    THEN /\ calls' = [calls EXCEPT ![c] =
                        [call EXCEPT !.pc = "write", !.pid = ghciProcess,
                                     !.text = WriteData(CommandOf(call.req))]]
         /\ UNCHANGED ghciVars
    ELSE /\ StartGhciSpawn
         /\ isReconnecting' = TRUE
         /\ calls' = [calls EXCEPT ![c] =
                        [call EXCEPT !.pc = "start",
                                     !.spawns = call.spawns + 1]]

\* a sendToGhci that never restarts the subprocess
SendToGhci_NoRestart(c, call) ==
    IF IsGhciHealthy
    THEN /\ calls' = [calls EXCEPT ![c] = [call EXCEPT !.pc = "write", !.pid = ghciProcess,
                                     !.text = WriteData(CommandOf(call.req))]]
         /\ UNCHANGED ghciVars
    ELSE /\ Respond(c, call, ErrorResponse(StdinNotAvailable))
         /\ UNCHANGED ghciVars

\* sendToGhci up to its first await on I/O, for the call in slot c whose
\* record is `call`
SendToGhci(c, call) ==
    IF IsGhciHealthy
    THEN \* stdin.write issued
         /\ calls' = [calls EXCEPT ![c] = [call EXCEPT !.pc = "write", !.pid = ghciProcess,
                                     !.text = WriteData(CommandOf(call.req))]]
         /\ UNCHANGED ghciVars
    ELSE IF isReconnecting
    THEN /\ Respond(c, call, ErrorResponse(CurrentlyReconnecting))
         /\ UNCHANGED ghciVars
    ELSE IF AlreadyRunning
    THEN \* startGhci returns at once, isReconnecting is reset, stdin.write issued
         /\ calls' = [calls EXCEPT ![c] =
                        [call EXCEPT !.pc = "write", !.pid = ghciProcess,
                                     !.text = WriteData(CommandOf(call.req))]]
         /\ UNCHANGED ghciVars
    ELSE /\ StartGhciSpawn
         /\ isReconnecting' = TRUE
         /\ calls' = [calls EXCEPT ![c] =
                        [call EXCEPT !.pc = "start",
                                     !.spawns = call.spawns + 1]]

----------------------------------------------------------------------------
(* Inputs *)

\* channel arguments: two channels of the enum, one outside it, and a
\* missing one
ChannelArgs == {"d1", "d2", "d10", Undef}

\* the arguments of the tidal_eval calls
EvalArgs ==
    {Args(TRUE, "d1", "a", FALSE, 0), Args(TRUE, "d1", "b", FALSE, 0),
     Args(TRUE, "d2", "a", FALSE, 0), Args(TRUE, "d1", "", FALSE, 0),
     Args(TRUE, "d10", "a", FALSE, 0), Args(TRUE, Undef, "a", FALSE, 0),
     Args(TRUE, "d1", Undef, FALSE, 0)}

ChannelOnly == {Args(TRUE, ch, Undef, FALSE, 0) : ch \in ChannelArgs}

EmptyArgs == Args(TRUE, Undef, Undef, FALSE, 0)

LimitArgs == {EmptyArgs} \cup {Args(TRUE, Undef, Undef, TRUE, k) : k \in (0 - 1)..(MaxHist + 1)}

ToolNames == {"tidal_eval", "tidal_hush", "tidal_silence", "tidal_get_state",
              "tidal_solo", "tidal_unsolo", "tidal_get_history"}

\* the tool calls of a file-mode session
Requests ==
    {Request("tidal_eval", a) : a \in EvalArgs}
    \cup {Request("tidal_silence", a) : a \in ChannelOnly}
    \cup {Request("tidal_solo", a) : a \in ChannelOnly}
    \cup {Request(n, EmptyArgs) : n \in {"tidal_hush", "tidal_unsolo", "tidal_get_state", "tidal_bogus"}}
    \cup {Request("tidal_get_history", a) : a \in LimitArgs}
    \cup {Request(n, NoArgs) : n \in ToolNames}

\* the tool calls of a subprocess-mode session: each is one submit to the
\* subprocess
GhciRequests == {Request("tidal_hush", EmptyArgs)}

\* the tool calls of two callers in file mode: evaluations of a channel of
\* the constructor and of two channels that it did not create, hush and
\* get-state
PairRequests ==
    {Request("tidal_eval", Args(TRUE, "d1", "a", FALSE, 0)),
     Request("tidal_eval", Args(TRUE, "d10", "a", FALSE, 0)),
     Request("tidal_eval", Args(TRUE, "d11", "a", FALSE, 0)),
     Request("tidal_hush", EmptyArgs),
     Request("tidal_get_state", EmptyArgs)}

\* the tool calls of a caller that awaits each call, in subprocess mode: two
\* tools with different commands and the two read tools
SeqRequests ==
    {Request("tidal_eval", Args(TRUE, "d1", "a", FALSE, 0)),
     Request("tidal_hush", EmptyArgs),
     Request("tidal_get_state", EmptyArgs), Request("tidal_get_history", EmptyArgs)}

----------------------------------------------------------------------------
(* Actions *)

EvalsBeforePush == Cardinality({c \in Calls : calls[c].pc = "log" /\ calls[c].req.name = "tidal_eval"})

\* run(): in subprocess mode startGhci is awaited before the transport connects
Run ==
    /\ EventLoopTurn
    /\ phase = "constructed"
    /\ IF useGhci
       THEN /\ StartGhciSpawn
            /\ phase' = "starting"
            /\ UNCHANGED isReconnecting
       ELSE /\ phase' = "connected"
            /\ UNCHANGED ghciVars
    /\ UNCHANGED <<wsVars, useGhci, canSpawn, storeVars, tidalFile, calls>>

\* run(): the startup wait of the first subprocess resolved
RunReady ==
    /\ EventLoopTurn
    /\ phase = "starting"
    /\ phase' = "connected"
    /\ UNCHANGED <<wsVars, useGhci, canSpawn, storeVars, tidalFile, calls, ghciVars>>

\* the CallToolRequestSchema handler up to its first await on I/O
ToolCall(c, req) ==
    /\ EventLoopTurn
    /\ phase = "connected"
    /\ calls[c].pc = "idle"
    /\ \A d \in Calls : d < c => calls[d].pc # "idle"
    /\ (req.name = "tidal_eval" /\ req.args.present)
          => Len(patternHistory) + EvalsBeforePush < MaxHist
    /\ LET call == [IdleCall EXCEPT !.req = req]
       IN  IF ~req.args.present
           THEN Respond(c, call, ErrorResponse(MissingArguments))
           ELSE IF req.name \in MutatingTools
           THEN calls' = [calls EXCEPT ![c] = [call EXCEPT !.pc = "log"]]
           ELSE IF req.name = "tidal_get_state"
           THEN Respond(c, call, GetState(channels))
           ELSE IF req.name = "tidal_get_history"
           THEN Respond(c, call, GetHistory(patternHistory, req.args))
           ELSE Respond(c, call, ErrorResponse(UnknownTool(req.name)))
    /\ UNCHANGED <<wsVars, useGhci, canSpawn, phase, storeVars, tidalFile, ghciVars>>

\* an evaluate that updates the store and leaves the history alone
Mutate_NoHistory(req) ==
    CASE req.name = "tidal_eval" ->
            /\ channels' = EvalChannels(channels, req.args.channel, req.args.pattern)
            /\ UNCHANGED patternHistory
      [] req.name = "tidal_hush" ->
            /\ channels' = HushChannels(channels)
            /\ UNCHANGED patternHistory
      [] req.name = "tidal_silence" ->
            /\ channels' = SilenceChannels(channels, req.args.channel)
            /\ UNCHANGED patternHistory
      [] OTHER -> UNCHANGED storeVars

\* a solo that marks every other channel inactive in the store
Mutate_SoloMutes(req) ==
    CASE req.name = "tidal_eval" ->
            /\ channels' = EvalChannels(channels, req.args.channel, req.args.pattern)
            /\ patternHistory' = EvalHistory(patternHistory, req.args.channel, req.args.pattern)
      [] req.name = "tidal_hush" ->
            /\ channels' = HushChannels(channels)
            /\ UNCHANGED patternHistory
      [] req.name = "tidal_silence" ->
            /\ channels' = SilenceChannels(channels, req.args.channel)
            /\ UNCHANGED patternHistory
      [] req.name = "tidal_solo" ->
            /\ channels' = [i \in 1..Len(channels) |->
                              IF channels[i].channel = req.args.channel THEN channels[i]
                              ELSE [channels[i] EXCEPT !.active = FALSE]]
            /\ UNCHANGED patternHistory
      [] OTHER -> UNCHANGED storeVars

\* the store and history update of a mutating tool
Mutate(req) ==
    CASE req.name = "tidal_eval" ->
            /\ channels' = EvalChannels(channels, req.args.channel, req.args.pattern)
            /\ patternHistory' = EvalHistory(patternHistory, req.args.channel, req.args.pattern)
      [] req.name = "tidal_hush" ->
            /\ channels' = HushChannels(channels)
            /\ UNCHANGED patternHistory
      [] req.name = "tidal_silence" ->
            /\ channels' = SilenceChannels(channels, req.args.channel)
            /\ UNCHANGED patternHistory
      [] OTHER -> UNCHANGED storeVars

\* a handler that awaits once more between its store update and its sink call
LogDone_SuspendsAfterUpdate(c, ok) ==
    /\ EventLoopTurn
    /\ calls[c].pc = "log"
    /\ Mutate(calls[c].req)
    /\ calls' = [calls EXCEPT ![c].pc = "updated", ![c].logOk = ok]
    /\ UNCHANGED <<wsVars, useGhci, canSpawn, phase, tidalFile, ghciVars>>

\* a handler that ends with an error when its log append fails
LogDone_FailsOnLogError(c, ok) ==
    /\ EventLoopTurn
    /\ calls[c].pc = "log"
    /\ IF ~ok
       THEN /\ Respond(c, [calls[c] EXCEPT !.logOk = ok], ErrorResponse(WriteFailed))
            /\ UNCHANGED <<storeVars, ghciVars>>
       ELSE /\ Mutate(calls[c].req)
            /\ IF useGhci
               THEN SendToGhci(c, [calls[c] EXCEPT !.logOk = ok])
               ELSE /\ calls' = [calls EXCEPT ![c].pc = "file", ![c].logOk = ok]
                    /\ UNCHANGED ghciVars
    /\ UNCHANGED <<wsVars, useGhci, canSpawn, phase, tidalFile>>

\* evalPattern, hush, silence, solo, unsolo after logPatternEvaluation or
\* logAction returned, its fs.appendFile resolved (ok) or rejected and caught:
\* the store update, then the sink call up to its await
LogDone(c, ok) ==
    /\ EventLoopTurn
    /\ calls[c].pc = "log"
    /\ Mutate(calls[c].req)
    /\ IF useGhci
       THEN SendToGhci(c, [calls[c] EXCEPT !.logOk = ok])
       ELSE /\ calls' = [calls EXCEPT ![c].pc = "file", ![c].logOk = ok]
            /\ UNCHANGED ghciVars
    /\ UNCHANGED <<wsVars, useGhci, canSpawn, phase, tidalFile>>

\* a file sink whose failure takes back the history entry of the evaluate
FileWriteDone_Rollback(c, ok) ==
    /\ EventLoopTurn
    /\ calls[c].pc = "file"
    /\ IF ok
       THEN /\ tidalFile' = WriteFile(tidalFile, CommandOf(calls[c].req))
            /\ Respond(c, calls[c], SuccessResponse(calls[c].req))
            /\ UNCHANGED storeVars
       ELSE /\ UNCHANGED <<tidalFile, channels>>
            /\ patternHistory' =
                  IF calls[c].req.name = "tidal_eval"
                  THEN SubSeq(patternHistory, 1, Len(patternHistory) - 1)
                  ELSE patternHistory
            /\ Respond(c, calls[c], ErrorResponse(WriteFailed))
    /\ UNCHANGED <<wsVars, useGhci, canSpawn, phase, ghciVars>>

\* writeToTidalFile: fs.writeFile resolved (ok) or rejected
FileWriteDone(c, ok) ==
    /\ EventLoopTurn
    /\ calls[c].pc = "file"
    /\ IF ok
       THEN /\ tidalFile' = WriteFile(tidalFile, CommandOf(calls[c].req))
            /\ Respond(c, calls[c], SuccessResponse(calls[c].req))
       ELSE /\ UNCHANGED tidalFile
            /\ Respond(c, calls[c], ErrorResponse(WriteFailed))
    /\ UNCHANGED <<wsVars, useGhci, canSpawn, phase, storeVars, ghciVars>>

\* a sendToGhci that leaves isReconnecting set when its reconnect has ended
StartupDone_KeepsFlag(c) ==
    /\ EventLoopTurn
    /\ calls[c].pc = "start"
    /\ IF ghciProcess = 0
       THEN Respond(c, calls[c], ErrorResponse(StdinNotAvailable))
       ELSE calls' = [calls EXCEPT ![c].pc = "write", ![c].pid = ghciProcess,
                                   ![c].text = WriteData(CommandOf(calls[c].req))]
    /\ UNCHANGED <<wsVars, useGhci, canSpawn, phase, storeVars, tidalFile, ghciVars>>

\* sendToGhci after startGhci's wait (marker or timeout) resolved
StartupDone(c) ==
    /\ EventLoopTurn
    /\ calls[c].pc = "start"
    /\ isReconnecting' = FALSE
    /\ IF ghciProcess = 0
       THEN Respond(c, calls[c], ErrorResponse(StdinNotAvailable))
       ELSE calls' = [calls EXCEPT ![c].pc = "write", ![c].pid = ghciProcess,
                                   ![c].text = WriteData(CommandOf(calls[c].req))]
    /\ UNCHANGED <<wsVars, useGhci, canSpawn, phase, storeVars, tidalFile, ghciProcess, ghciStreamAlive, procs, nextPid>>

\* a mutating tool after its log append returned, when sendToGhci has to
\* reconnect and spawn() throws inside startGhci (an error that Node reports
\* synchronously): the store update, the old handle killed and dropped,
\* isReconnecting set and, in the catch, cleared, and the error rethrown as
\* "Failed to reconnect to GHCi"
LogDoneSpawnThrows(c) ==
    /\ EventLoopTurn
    /\ calls[c].pc = "log"
    /\ useGhci
    /\ ~IsGhciHealthy /\ ~isReconnecting /\ ~AlreadyRunning
    /\ Mutate(calls[c].req)
    /\ procs' = [p \in Pids |->
                    IF p = ghciProcess
                    THEN [procs[p] EXCEPT !.state = "killed",
                                          !.signals = Append(@, "kill")]
                    ELSE procs[p]]
    /\ ghciProcess' = 0
    /\ isReconnecting' = FALSE
    /\ Respond(c, calls[c], ErrorResponse(FailedToReconnect))
    /\ UNCHANGED <<wsVars, useGhci, canSpawn, phase, tidalFile, ghciStreamAlive, nextPid>>

\* a write callback that never reports an error
WriteSucceeds_Always(p) == TRUE

\* stdin.write: the callback reports no error
WriteSucceeds(p) == procs[p].state \in {"running", "killed"} /\ procs[p].stdin = "open"

\* a write callback that reports the error and leaves the flag as it is
StdinWriteDone_KeepsAlive(c) ==
    /\ EventLoopTurn
    /\ calls[c].pc = "write"
    /\ IF WriteSucceeds(calls[c].pid)
       THEN /\ Respond(c, calls[c], SuccessResponse(calls[c].req))
            /\ UNCHANGED procs
       ELSE /\ procs' = [procs EXCEPT ![calls[c].pid].stdin =
                            IF @ = "open" THEN "destroyed" ELSE @]
            /\ Respond(c, calls[c], ErrorResponse(WriteFailed))
    /\ UNCHANGED <<wsVars, useGhci, canSpawn, phase, storeVars, tidalFile, ghciProcess, ghciStreamAlive,
                   isReconnecting, nextPid>>

\* the callback of stdin.write
StdinWriteDone(c) ==
    /\ EventLoopTurn
    /\ calls[c].pc = "write"
    /\ IF WriteSucceeds(calls[c].pid)
       THEN /\ Respond(c, calls[c], SuccessResponse(calls[c].req))
            /\ UNCHANGED <<ghciStreamAlive, procs>>
       ELSE /\ ghciStreamAlive' = FALSE
            /\ procs' = [procs EXCEPT ![calls[c].pid].stdin =
                            IF @ = "open" THEN "destroyed" ELSE @]
            /\ Respond(c, calls[c], ErrorResponse(WriteFailed))
    /\ UNCHANGED <<wsVars, useGhci, canSpawn, phase, storeVars, tidalFile, ghciProcess, isReconnecting, nextPid>>

\* ghciProcess.on('exit') of subprocess p
ProcExit(p) ==
    /\ EventLoopTurn
    /\ procs[p].state \in {"running", "killed"}
    /\ procs' = [procs EXCEPT ![p].state = "exited"]
    /\ ghciStreamAlive' = FALSE
    /\ ghciProcess' = 0
    /\ UNCHANGED <<wsVars, useGhci, canSpawn, phase, storeVars, tidalFile, calls, isReconnecting, nextPid>>

\* stdin.on('error') of subprocess p
StdinError(p) ==
    /\ EventLoopTurn
    /\ procs[p].state # "none"
    /\ procs[p].stdin = "open"
    /\ procs' = [procs EXCEPT ![p].stdin = "destroyed"]
    /\ ghciStreamAlive' = FALSE
    /\ UNCHANGED <<wsVars, useGhci, canSpawn, phase, storeVars, tidalFile, calls, ghciProcess, isReconnecting, nextPid>>

\* stdin.on('close') of subprocess p
StdinClose(p) ==
    /\ EventLoopTurn
    /\ procs[p].state # "none"
    /\ procs[p].stdin # "closed"
    /\ procs' = [procs EXCEPT ![p].stdin = "closed"]
    /\ ghciStreamAlive' = FALSE
    /\ UNCHANGED <<wsVars, useGhci, canSpawn, phase, storeVars, tidalFile, calls, ghciProcess, isReconnecting, nextPid>>

\* the response of a finished call is sent to the client
Return(c) ==
    /\ EventLoopTurn
    /\ calls[c].pc = "done"
    /\ calls' = [calls EXCEPT ![c] = IdleCall]
    /\ UNCHANGED <<wsVars, useGhci, canSpawn, phase, storeVars, tidalFile, ghciVars>>

\* ghciProcess.on('error') of subprocess p, whose spawn failed: the handler
\* clears the flag and rethrows; nothing catches an exception thrown by an
\* event listener, so the host process ends with an uncaught exception
SpawnError(p) ==
    /\ phase \notin {"exited", "crashed"}
    /\ procs[p].state = "failed"
    /\ ghciStreamAlive' = FALSE
    /\ phase' = "crashed"
    /\ UNCHANGED <<wsVars, useGhci, canSpawn, storeVars, tidalFile, calls, ghciProcess, isReconnecting,
                   procs, nextPid>>

\* the environment: the executable named by GHCI_PATH goes missing or comes
\* back
PathChanges ==
    /\ EventLoopTurn
    /\ canSpawn' = ~canSpawn
    /\ UNCHANGED <<wsVars, useGhci, phase, storeVars, tidalFile, calls, ghciVars>>

\* what cleanup asks of the subprocess whose stdin is in state stdin
CleanupSignals_KillFirst(stdin) ==
    IF stdin \in {"open", "ended"} THEN <<"kill", "end">> ELSE <<"kill">>

\* cleanup: stdin.end() if stdin is not destroyed, then kill()
CleanupSignals(stdin) ==
    IF stdin \in {"open", "ended"} THEN <<"end", "kill">> ELSE <<"kill">>

\* the SIGINT handler up to its await: cleanup() up to server.close()
Sigint ==
    /\ EventLoopTurn
    /\ phase \in {"constructed", "starting", "connected"}
    /\ phase' = "closing"
    /\ IF ghciProcess # 0
       THEN /\ procs' = [procs EXCEPT ![ghciProcess] =
                           [state |-> "killed",
                            stdin |-> IF @.stdin = "open" THEN "ended" ELSE @.stdin,
                            signals |-> @.signals \o CleanupSignals(@.stdin)]]
            /\ ghciStreamAlive' = FALSE
       ELSE UNCHANGED <<procs, ghciStreamAlive>>
    /\ UNCHANGED <<wsVars, useGhci, canSpawn, storeVars, tidalFile, calls, ghciProcess, isReconnecting,
                   nextPid>>

\* the SIGINT handler after server.close() resolved: process.exit(0)
HostExit ==
    /\ EventLoopTurn
    /\ phase = "closing"
    /\ phase' = "exited"
    /\ UNCHANGED <<wsVars, useGhci, canSpawn, storeVars, tidalFile, calls, ghciVars>>

\* file mode
Next ==
    \/ Run
    \/ \E c \in FileCalls, req \in Requests : ToolCall(c, req)
    \/ \E c \in FileCalls : LogDone(c, TRUE)
    \/ \E c \in FileCalls, ok \in BOOLEAN : FileWriteDone(c, ok)
    \/ \E c \in FileCalls : Return(c)

Spec == Init /\ [][Next]_vars

\* subprocess mode
NextGhci ==
    \/ Run
    \/ RunReady
    \/ \E c \in Calls, req \in GhciRequests : ToolCall(c, req)
    \/ \E c \in Calls : LogDone(c, TRUE)
    \/ \E c \in Calls : StartupDone(c)
    \/ \E c \in Calls : StdinWriteDone(c)
    \/ \E p \in Pids : ProcExit(p)
    \/ \E p \in Pids : StdinError(p)
    \/ \E p \in Pids : StdinClose(p)
    \/ \E c \in Calls : Return(c)

SpecGhci == InitGhci /\ [][NextGhci]_vars

\* subprocess mode with its environment: spawns that fail and SIGINT
InitLife == useGhci = TRUE /\ canSpawn \in BOOLEAN /\ InitCommon

NextLife ==
    \/ Run
    \/ RunReady
    \/ \E c \in LifeCalls, req \in GhciRequests : ToolCall(c, req)
    \/ \E c \in LifeCalls : LogDone(c, TRUE)
    \/ \E c \in LifeCalls : StartupDone(c)
    \/ \E c \in LifeCalls : StdinWriteDone(c)
    \/ \E p \in Pids : ProcExit(p)
    \/ \E p \in Pids : StdinError(p)
    \/ \E p \in Pids : StdinClose(p)
    \/ \E c \in LifeCalls : Return(c)
    \/ \E p \in Pids : SpawnError(p)
    \/ PathChanges
    \/ Sigint
    \/ HostExit

SpecLife == InitLife /\ [][NextLife]_vars

\* file mode with overlapping calls and a session log that can fail
NextPair ==
    \/ Run
    \/ \E c \in Calls, req \in PairRequests : ToolCall(c, req)
    \/ \E c \in Calls, ok \in BOOLEAN : LogDone(c, ok)
    \/ \E c \in Calls, ok \in BOOLEAN : FileWriteDone(c, ok)
    \/ \E c \in Calls : Return(c)

SpecPair == Init /\ [][NextPair]_vars

\* subprocess mode with a caller that awaits each call before the next
NextSeq ==
    \/ Run
    \/ RunReady
    \/ \E c \in LifeCalls, req \in SeqRequests : ToolCall(c, req)
    \/ \E c \in LifeCalls : LogDone(c, TRUE)
    \/ \E c \in LifeCalls : StartupDone(c)
    \/ \E c \in LifeCalls : StdinWriteDone(c)
    \/ \E p \in Pids : ProcExit(p)
    \/ \E p \in Pids : StdinError(p)
    \/ \E p \in Pids : StdinClose(p)
    \/ \E c \in LifeCalls : Return(c)

SpecSeq == InitGhci /\ [][NextSeq]_vars

\* the tool calls that write and read the channel store: evaluations of two
\* channels of the constructor and of one that it did not create, silence,
\* hush and get-state
StoreRequests ==
    {Request("tidal_eval", Args(TRUE, "d1", "a", FALSE, 0)),
     Request("tidal_eval", Args(TRUE, "d1", "b", FALSE, 0)),
     Request("tidal_eval", Args(TRUE, "d2", "a", FALSE, 0)),
     Request("tidal_eval", Args(TRUE, "d10", "a", FALSE, 0)),
     Request("tidal_silence", Args(TRUE, "d1", Undef, FALSE, 0)),
     Request("tidal_silence", Args(TRUE, "d2", Undef, FALSE, 0)),
     Request("tidal_hush", EmptyArgs),
     Request("tidal_get_state", EmptyArgs)}

\* a file-mode session of one caller that works on the channel store
NextStore ==
    \/ Run
    \/ \E c \in FileCalls, req \in StoreRequests : ToolCall(c, req)
    \/ \E c \in FileCalls : LogDone(c, TRUE)
    \/ \E c \in FileCalls, ok \in BOOLEAN : FileWriteDone(c, ok)
    \/ \E c \in FileCalls : Return(c)

SpecStore == Init /\ [][NextStore]_vars

\* the tool calls of two callers that evaluate on one channel
OverlapRequests ==
    {Request("tidal_eval", Args(TRUE, "d1", "a", FALSE, 0)),
     Request("tidal_eval", Args(TRUE, "d1", "b", FALSE, 0))}

\* subprocess mode with overlapping evaluate calls and subprocesses that exit
NextOverlap ==
    \/ Run
    \/ RunReady
    \/ \E c \in Calls, req \in OverlapRequests : ToolCall(c, req)
    \/ \E c \in Calls : LogDone(c, TRUE)
    \/ \E c \in Calls : StartupDone(c)
    \/ \E c \in Calls : StdinWriteDone(c)
    \/ \E p \in Pids : ProcExit(p)
    \/ \E c \in Calls : Return(c)

SpecOverlap == InitGhci /\ [][NextOverlap]_vars

\* subprocess mode with overlapping calls, subprocesses that exit and spawns
\* that can throw
NextThrow ==
    \/ Run
    \/ RunReady
    \/ \E c \in Calls, req \in GhciRequests : ToolCall(c, req)
    \/ \E c \in Calls : LogDone(c, TRUE)
    \/ \E c \in Calls : LogDoneSpawnThrows(c)
    \/ \E c \in Calls : StartupDone(c)
    \/ \E c \in Calls : StdinWriteDone(c)
    \/ \E p \in Pids : ProcExit(p)
    \/ \E c \in Calls : Return(c)

SpecThrow == InitGhci /\ [][NextThrow]_vars

----------------------------------------------------------------------------
(* WebSocketClient: the heartbeat of one accepted connection                *)
(* (src/src/websocket-transport.ts).  The clock moves in steps of          *)
(* ClockStep; a timer callback runs when its time has come, at once or up  *)
(* to one step late.                                                       *)

ClockStep == 10000

\* a staleness test that uses the ping interval as its threshold
IsStale_AfterOneInterval(t, last) == t - last > PingIntervalMs

\* startHeartbeat: Date.now() - this.lastPing > 60000
IsStale(t, last) == t - last > StaleAfterMs

\* isConnected
IsConnected == readyState = "OPEN"

\* time passes, as long as no interval callback is more than due
ClockTick ==
    /\ now < MaxTicks * ClockStep
    /\ pingInterval # Cleared => now < pingInterval + ClockStep
    /\ now' = now + ClockStep
    /\ UNCHANGED <<readyState, lastPing, pingInterval, pings>>
    /\ UNCHANGED <<hostVars, clientVars>>

\* the callback of setInterval in startHeartbeat; close() is inlined
Heartbeat ==
    /\ pingInterval # Cleared
    /\ now >= pingInterval
    /\ IF IsConnected
       THEN /\ pings' = Append(pings, now)
            /\ IF IsStale(now, lastPing)
               THEN /\ pingInterval' = Cleared
                    /\ readyState' = "CLOSING"
               ELSE /\ pingInterval' = now + PingIntervalMs
                    /\ UNCHANGED readyState
       ELSE /\ pingInterval' = Cleared
            /\ UNCHANGED <<pings, readyState>>
    /\ UNCHANGED <<now, lastPing>>
    /\ UNCHANGED <<hostVars, clientVars>>

\* ws.on('pong'): the peer answers a ping
Pong ==
    /\ readyState = "OPEN"
    /\ pings # << >>
    /\ lastPing' = now
    /\ UNCHANGED <<now, readyState, pingInterval, pings>>
    /\ UNCHANGED <<hostVars, clientVars>>

\* ws.on('message') with { type: 'ping' }: a pong message is sent back
PingMessage ==
    /\ readyState = "OPEN"
    /\ lastPing' = now
    /\ UNCHANGED <<now, readyState, pingInterval, pings>>
    /\ UNCHANGED <<hostVars, clientVars>>

\* WebSocketClient.close, called by WebSocketServerTransport.close
ClientClose ==
    /\ pingInterval' = Cleared
    /\ readyState' = IF readyState = "OPEN" THEN "CLOSING" ELSE readyState
    /\ UNCHANGED <<now, lastPing, pings>>
    /\ UNCHANGED <<hostVars, clientVars>>

\* the connection ends: the peer closed it, it failed, or the closing
\* handshake is over
SocketClosed ==
    /\ readyState \in {"OPEN", "CLOSING"}
    /\ readyState' = "CLOSED"
    /\ UNCHANGED <<now, lastPing, pingInterval, pings>>
    /\ UNCHANGED <<hostVars, clientVars>>

NextHeartbeat ==
    \/ ClockTick
    \/ Heartbeat
    \/ Pong
    \/ PingMessage
    \/ ClientClose
    \/ SocketClosed

SpecHeartbeat == Init /\ [][NextHeartbeat]_vars

----------------------------------------------------------------------------
(* WebSocketClientTransport: connect, reconnect and close                  *)
(* (src/src/websocket-transport.ts).  connect() runs only when the socket  *)
(* before it has closed, so one readyState describes this.ws.              *)

RECURSIVE Pow2(_)
\* Math.pow(2, n)
Pow2(n) == IF n = 0 THEN 1 ELSE 2 * Pow2(n - 1)

\* a delay without the upper limit
ReconnectDelay_Unlimited(attempts) == BaseReconnectDelay * Pow2(attempts)

\* scheduleReconnect: Math.min(1000 * Math.pow(2, attempts), maxReconnectDelay)
ReconnectDelay(attempts) == Min(BaseReconnectDelay * Pow2(attempts), MaxReconnectDelay)

\* connect(): this.ws = new WebSocket(this.url)
Connect ==
    /\ sockets < MaxSockets
    /\ ws' = "CONNECTING"
    /\ sockets' = sockets + 1

\* scheduleReconnect: clearTimeout(this.reconnectTimer), then setTimeout
ScheduleReconnect ==
    LET timer == [id |-> sockets, delay |-> ReconnectDelay(reconnectAttempts)]
    IN  /\ timers' = (timers \ {reconnectTimer}) \cup {timer}
        /\ reconnectTimer' = timer

\* start()
Start ==
    /\ ws = "none"
    /\ Connect
    /\ UNCHANGED <<connected, reconnectAttempts, reconnectTimer, timers, heartbeats, closeCalled>>
    /\ UNCHANGED <<hostVars, heartbeatVars>>

\* ws.on('open')
Open ==
    /\ ws = "CONNECTING"
    /\ ws' = "OPEN"
    /\ connected' = TRUE
    /\ reconnectAttempts' = 0
    /\ heartbeats' = heartbeats + 1
    /\ UNCHANGED <<reconnectTimer, timers, sockets, closeCalled>>
    /\ UNCHANGED <<hostVars, heartbeatVars>>

\* ws.on('error'): the handshake or the connection failed; the socket goes
\* on to emit 'close'
SocketError ==
    /\ ws \in {"CONNECTING", "OPEN"}
    /\ ws' = "CLOSING"
    /\ connected' = FALSE
    /\ UNCHANGED <<reconnectAttempts, reconnectTimer, timers, sockets, heartbeats, closeCalled>>
    /\ UNCHANGED <<hostVars, heartbeatVars>>

\* ws.on('close'): the server closed the connection, or a failure or a
\* close() has run its course
CloseEvent ==
    /\ ws \in {"OPEN", "CLOSING"}
    /\ ws' = "CLOSED"
    /\ connected' = FALSE
    /\ ScheduleReconnect
    /\ UNCHANGED <<reconnectAttempts, sockets, heartbeats, closeCalled>>
    /\ UNCHANGED <<hostVars, heartbeatVars>>

\* the callback of the timeout t set by scheduleReconnect
ReconnectTimerFires(t) ==
    /\ t \in timers
    /\ timers' = timers \ {t}
    /\ reconnectAttempts' = reconnectAttempts + 1
    /\ Connect
    /\ UNCHANGED <<connected, reconnectTimer, heartbeats, closeCalled>>
    /\ UNCHANGED <<hostVars, heartbeatVars>>

\* close(): clearTimeout(this.reconnectTimer), this.ws.close()
Close ==
    /\ timers' = timers \ {reconnectTimer}
    /\ IF ws # "none"
       THEN /\ ws' = IF ws \in {"CONNECTING", "OPEN"} THEN "CLOSING" ELSE ws
            /\ connected' = FALSE
       ELSE UNCHANGED <<ws, connected>>
    /\ closeCalled' = TRUE
    /\ UNCHANGED <<reconnectAttempts, reconnectTimer, sockets, heartbeats>>
    /\ UNCHANGED <<hostVars, heartbeatVars>>

\* the callback of an interval set by startHeartbeat: a ping message is sent
\* on an open connection, the interval is cleared otherwise
ClientHeartbeat ==
    /\ heartbeats > 0
    /\ heartbeats' = IF connected /\ ws = "OPEN" THEN heartbeats ELSE heartbeats - 1
    /\ UNCHANGED <<ws, connected, reconnectAttempts, reconnectTimer, timers, sockets, closeCalled>>
    /\ UNCHANGED <<hostVars, heartbeatVars>>

NextClient ==
    \/ Start
    \/ Open
    \/ SocketError
    \/ CloseEvent
    \/ \E t \in timers : ReconnectTimerFires(t)
    \/ Close
    \/ ClientHeartbeat

SpecClient == Init /\ [][NextClient]_vars

----------------------------------------------------------------------------
(* The subprocess manager: claims, checked under SpecGhci *)

\* the subprocesses that were spawned and neither killed nor exited
AliveProcs == {p \in Pids : procs[p].state = "running"}

\* a reconnect is in progress: some sendToGhci awaits startGhci
InStartup(c) == calls[c].pc = "start"

\* the call in slot c runs its sendToGhci in this step
Submits(c) == calls[c].pc = "log" /\ calls'[c].pc # "log"

\* C1: in subprocess mode at most one subprocess spawned by the manager is
\* alive (spawned and not yet killed or exited) in every reachable state.
C1_AtMostOneAlive == Cardinality(AliveProcs) <= 1

\* C2: while the reconnect started by one submit call is in progress, no other
\* submit call spawns a subprocess or starts a second reconnect: the recovery
\* spawns exactly one subprocess, the one its first call spawned.
C2_OneSpawnPerReconnect ==
    [][\A c \in Calls :
         InStartup(c) =>
            /\ calls[c].spawns = 1
            /\ nextPid' = nextPid
            /\ \A d \in Calls \ {c} : ~InStartup(d)']_vars

\* an overlapping submit was turned away while the first call's startup wait
\* was still pending
C2_Witness ==
    \E c, d \in Calls :
        /\ c # d
        /\ InStartup(c)
        /\ calls[d].pc = "done"
        /\ calls[d].resp = ErrorResponse(CurrentlyReconnecting)

\* C3: a submit call that arrives while another call is inside an active
\* reconnect (its startup wait has not finished) returns the "reconnecting"
\* error and does not write its command to the subprocess.
C3_SecondCallRejected ==
    [][\A c, d \in Calls :
         (c # d /\ InStartup(c) /\ Submits(d)) =>
            /\ calls'[d].pc = "done"
            /\ calls'[d].resp = ErrorResponse(CurrentlyReconnecting)]_vars

\* an exit, stdin-error or stdin-close callback, or a failed write, ran in
\* this step: a subprocess record changed and none was spawned
CallbackFires == procs' # procs /\ nextPid' = nextPid

\* C4: a callback that fires leaves the manager non-live; the next submit
\* call, finding the liveness flag false and no reconnect in progress, spawns
\* exactly one subprocess and waits for its startup; when the wait ends it
\* spawns nothing more, and it has spawned exactly one when it writes.
C4_ReconnectOnceBeforeWrite ==
    [][/\ CallbackFires => (~ghciStreamAlive' /\ ~IsGhciHealthy')
       /\ \A c \in Calls :
            /\ (Submits(c) /\ ~ghciStreamAlive /\ ~isReconnecting) =>
                  /\ InStartup(c)'
                  /\ calls'[c].spawns = 1
                  /\ nextPid' = nextPid + 1
                  /\ ghciStreamAlive'
            /\ (InStartup(c) /\ ~InStartup(c)') =>
                  /\ nextPid' = nextPid
                  /\ calls'[c].pc \in {"write", "done"}
                  /\ calls'[c].pc = "write" => calls'[c].spawns = 1
            /\ calls'[c].spawns <= 1]_vars

\* a call that found the manager non-live has reconnected once and now writes
\* to the subprocess it spawned
C4_Witness ==
    \E c \in Calls :
        /\ calls[c].pc = "write"
        /\ calls[c].spawns = 1
        /\ calls[c].pid = nextPid
        /\ nextPid >= 2

----------------------------------------------------------------------------
(* The request dispatcher: claims, checked under Spec *)

\* a channel argument that is given and is not one of d1..d9
OutsideEnum(channel) == channel # Undef /\ channel \notin ChannelEnum

IsEval(req) == req.name = "tidal_eval" /\ req.args.present

\* the call in slot c has reached a sink: its command is being written or the
\* manager is being started for it
AtSink(c) == calls[c].pc \in {"file", "write", "start"}

\* the operation of the call in slot c completes in this step, with success or
\* with the error of its sink
Completes(c) == AtSink(c) /\ calls'[c].pc = "done"

\* the call in slot c runs its store update in this step
Mutates(c) == calls[c].pc = "log" /\ calls'[c].pc # "log"

\* the call in slot c is a read tool answered in this step
Answers(c, name) ==
    /\ calls[c].pc = "idle"
    /\ calls'[c].pc = "done"
    /\ calls'[c].req.name = name
    /\ calls'[c].req.args.present

\* the record of a channel of the enum
Channel(m, id) == m[MapIndex(m, id)]

\* C5: evaluate with a channel identifier outside d1..d9 is rejected with an
\* error before any change to the channel store or the history and before any
\* sink write.
C5_OutsideChannelRejected ==
    /\ \A i \in DOMAIN channels : ~OutsideEnum(channels[i].channel)
    /\ \A i \in DOMAIN patternHistory : ~OutsideEnum(patternHistory[i].channel)
    /\ \A c \in Calls :
          (IsEval(calls[c].req) /\ OutsideEnum(calls[c].req.args.channel)) =>
             /\ ~AtSink(c)
             /\ calls[c].pc = "done" => calls[c].resp.isError

\* a mutating call that lacks an argument its schema requires
MissingRequired(req) ==
    \/ req.name = "tidal_eval" /\ (req.args.channel = Undef \/ req.args.pattern = Undef)
    \/ req.name \in {"tidal_silence", "tidal_solo"} /\ req.args.channel = Undef

\* C6: a mutating operation called with a required argument missing returns
\* an error and leaves the channel store and the history unchanged.
C6_MissingArgumentRejected ==
    /\ \A i \in DOMAIN channels :
          channels[i].channel # Undef /\ channels[i].pattern # Undef
    /\ \A i \in DOMAIN patternHistory :
          patternHistory[i].channel # Undef /\ patternHistory[i].pattern # Undef
    /\ \A c \in Calls :
          (MissingRequired(calls[c].req) /\ calls[c].pc = "done") => calls[c].resp.isError

\* C7: for every channel record of the store, the active flag is false if and
\* only if the content is the empty text.
C7_InactiveIffEmpty ==
    \A i \in DOMAIN channels : (channels[i].active = FALSE) <=> (channels[i].pattern = "")

\* get-state lists channel id with content X
Lists(resp, id, X) ==
    \E j \in DOMAIN resp.body : resp.body[j] = [channel |-> Str(id), pattern |-> Str(X)]

\* C8: for every id in d1..d9 and every content X, when evaluate(id, X)
\* completes the store holds id as active with content X and get-state lists
\* id with X; the record of id changes only in the store update of an
\* evaluate or silence on id or of a hush; and every get-state answer lists
\* each active record of the store with its content.
C8_EvaluateThenState ==
    [][/\ \A c \in Calls :
            (Completes(c) /\ IsEval(calls[c].req) /\ calls[c].req.args.channel \in ChannelEnum) =>
               LET id == calls[c].req.args.channel
                   X == calls[c].req.args.pattern
               IN  /\ Channel(channels', id) = ChannelState(id, X, TRUE)
                   /\ Lists(GetState(channels'), id, X)
       /\ \A id \in ChannelEnum :
            Channel(channels', id) # Channel(channels, id) =>
               \E c \in Calls :
                  /\ Mutates(c)
                  /\ calls[c].req.name \in {"tidal_eval", "tidal_silence", "tidal_hush"}
                  /\ calls[c].req.name # "tidal_hush" => calls[c].req.args.channel = id
       /\ \A c \in Calls :
            Answers(c, "tidal_get_state") =>
               \A i \in DOMAIN channels :
                  channels[i].active =>
                     Lists(calls'[c].resp, channels[i].channel, channels[i].pattern)]_vars

\* a second evaluate on d1 has completed after evaluates on d1 and d2, and the
\* store holds its content
C8_Witness ==
    \E c \in Calls :
        /\ calls[c].pc = "done"
        /\ calls[c].req = Request("tidal_eval", Args(TRUE, "d1", "b", FALSE, 0))
        /\ ~calls[c].resp.isError
        /\ Len(patternHistory) >= 2
        /\ patternHistory[1].pattern = "a"
        /\ Channel(channels, "d1") = ChannelState("d1", "b", TRUE)

\* C9: when silence(id) completes id is not active; when hush completes no
\* record of the store is active and get-state reports no active patterns;
\* and every get-state answer is empty when no record is active.
C9_SilenceAndHushClear ==
    [][\A c \in Calls :
         /\ (Completes(c) /\ calls[c].req.name = "tidal_silence") =>
               \A i \in DOMAIN channels' :
                  channels'[i].channel = calls[c].req.args.channel => ~channels'[i].active
         /\ (Completes(c) /\ calls[c].req.name = "tidal_hush") =>
               /\ \A i \in DOMAIN channels' : ~channels'[i].active
               /\ GetState(channels').body = << >>
         /\ (Answers(c, "tidal_get_state") /\ \A i \in DOMAIN channels : ~channels[i].active) =>
               calls'[c].resp = Response(FALSE, "state", << >>)]_vars

\* a hush has completed after evaluates had added a record outside d1..d9
C9_Witness ==
    \E c \in Calls :
        /\ calls[c].pc = "done"
        /\ calls[c].req.name = "tidal_hush"
        /\ ~calls[c].resp.isError
        /\ Len(patternHistory) >= 2
        /\ Len(channels) > NumChannels
        /\ \A i \in DOMAIN channels : ~channels[i].active

\* C10: get-history(k) with k >= 1 over a history of N entries returns the
\* last min(k, N) entries, most recent first.
C10_HistoryMostRecentFirst ==
    [][\A c \in Calls :
         (Answers(c, "tidal_get_history") /\ calls'[c].req.args.hasLimit
            /\ calls'[c].req.args.limit >= 1) =>
            LET N == Len(patternHistory)
                m == Min(calls'[c].req.args.limit, N)
                body == calls'[c].resp.body
            IN  /\ ~calls'[c].resp.isError
                /\ Len(body) = m
                /\ \A i \in 1..m :
                      /\ body[i].channel = Str(patternHistory[N + 1 - i].channel)
                      /\ body[i].pattern = Str(patternHistory[N + 1 - i].pattern)]_vars

\* get-history(2) has answered over a history of two different entries
C10_Witness ==
    \E c \in Calls :
        /\ calls[c].pc = "done"
        /\ calls[c].req.name = "tidal_get_history"
        /\ calls[c].req.args.hasLimit
        /\ calls[c].req.args.limit = MaxHist
        /\ Len(patternHistory) = MaxHist
        /\ patternHistory[1] # patternHistory[MaxHist]
        /\ Len(calls[c].resp.body) = MaxHist

\* the call in slot c is a get-history with limit k, answered
HistoryAnswered(c) ==
    /\ calls[c].pc = "done"
    /\ calls[c].req.name = "tidal_get_history"
    /\ calls[c].req.args.present

\* C11: get-history with a limit of 0 or a negative limit returns no entries,
\* for every history, and does not fail.
C11_NonPositiveLimitEmpty ==
    \A c \in Calls :
        (HistoryAnswered(c) /\ calls[c].req.args.hasLimit /\ calls[c].req.args.limit <= 0) =>
           /\ ~calls[c].resp.isError
           /\ calls[c].resp.body = << >>

\* h is a prefix of g
IsPrefix(h, g) == Len(h) <= Len(g) /\ \A i \in 1..Len(h) : g[i] = h[i]

\* C12: the history is append-only: every step leaves it as it is or appends
\* to it; it changes only in the store update of an evaluate, which appends
\* exactly the entry of that call; no other tool changes it.
C12_HistoryAppendOnly ==
    [][/\ IsPrefix(patternHistory, patternHistory')
       /\ \A c \in Calls :
            (Mutates(c) /\ calls[c].req.name = "tidal_eval") =>
               patternHistory' = Append(patternHistory,
                                        [channel |-> calls[c].req.args.channel,
                                         pattern |-> calls[c].req.args.pattern])
       /\ patternHistory' # patternHistory =>
            \E c \in Calls : Mutates(c) /\ calls[c].req.name = "tidal_eval"]_vars

\* a hush has completed over a full history of two different entries
C12_Witness ==
    \E c \in Calls :
        /\ calls[c].pc = "done"
        /\ calls[c].req.name = "tidal_hush"
        /\ ~calls[c].resp.isError
        /\ Len(patternHistory) = MaxHist
        /\ patternHistory[1] # patternHistory[MaxHist]

\* the sink submit of the call in slot c fails in this step
SinkFails(c) == Completes(c) /\ calls'[c].resp.isError

\* C13: when the sink submit fails during evaluate, hush or silence, the
\* caller receives an error response and the step changes neither the store
\* nor the history, which hold the update the operation applied: the record
\* and the last history entry of an evaluate, every record inactive for a
\* hush, the record inactive for a silence.
C13_NoRollback ==
    [][\A c \in Calls :
         (SinkFails(c) /\ calls[c].req.name \in {"tidal_eval", "tidal_hush", "tidal_silence"}) =>
            LET req == calls[c].req
            IN  /\ calls'[c].resp = ErrorResponse(WriteFailed)
                /\ UNCHANGED storeVars
                /\ req.name = "tidal_eval" =>
                      /\ MapHas(channels', req.args.channel)
                      /\ Channel(channels', req.args.channel)
                            = ChannelState(req.args.channel, req.args.pattern, TRUE)
                      /\ Len(patternHistory') >= 1
                      /\ patternHistory'[Len(patternHistory')]
                            = [channel |-> req.args.channel, pattern |-> req.args.pattern]
                /\ req.name = "tidal_hush" => \A i \in DOMAIN channels' : ~channels'[i].active
                /\ req.name = "tidal_silence" =>
                      \A i \in DOMAIN channels' :
                         channels'[i].channel = req.args.channel => ~channels'[i].active]_vars

\* an evaluate has failed at the sink and its update is in the store and the
\* history
C13_Witness ==
    \E c \in Calls :
        /\ calls[c].pc = "done"
        /\ calls[c].req = Request("tidal_eval", Args(TRUE, "d2", "a", FALSE, 0))
        /\ calls[c].resp = ErrorResponse(WriteFailed)
        /\ Channel(channels, "d2") = ChannelState("d2", "a", TRUE)
        /\ patternHistory[Len(patternHistory)] = [channel |-> "d2", pattern |-> "a"]

----------------------------------------------------------------------------
(* Sink writes and failures: claims, checked under SpecGhci and SpecLife *)

\* the call in slot c gets its response in this step
Responds(c) == calls[c].pc # "done" /\ calls'[c].pc = "done"

\* C14: a mutating operation gets its success response only in the step in
\* which the write of its command completes without error: the callback of a
\* stdin write to a subprocess that has not exited and whose stdin is open, or
\* the end of a file write that left the command in the file; never in the
\* step that issues the write, and never for a write that failed.
C14_SuccessAfterWrite ==
    [][\A c \in Calls :
         (Responds(c) /\ calls'[c].req.name \in MutatingTools /\ ~calls'[c].resp.isError) =>
            \/ /\ calls[c].pc = "write"
               /\ procs[calls[c].pid].state \in {"running", "killed"}
               /\ procs[calls[c].pid].stdin = "open"
            \/ /\ calls[c].pc = "file"
               /\ tidalFile' = FileHeader \o CommandOf(calls[c].req) \o "\n"]_vars

\* a hush has succeeded on the subprocess a reconnect spawned, after a first
\* subprocess exited
C14_Witness ==
    \E c \in Calls :
        /\ calls[c].pc = "done"
        /\ calls[c].req.name = "tidal_hush"
        /\ ~calls[c].resp.isError
        /\ nextPid = 2
        /\ procs[1].state = "exited"
        /\ ghciProcess = 2

\* C15: when the write to the subprocess's stdin fails, the same step clears
\* the liveness flag and ends the call with the write error as its response:
\* the call spawns nothing, starts no reconnect and writes nothing again; a
\* later submit call that finds the flag false and no reconnect in progress
\* is the one that spawns.
C15_WriteFailure ==
    [][/\ \A c \in Calls :
            (calls[c].pc = "write" /\ calls'[c] # calls[c]
                /\ ~(procs[calls[c].pid].state \in {"running", "killed"}
                        /\ procs[calls[c].pid].stdin = "open")) =>
               /\ ~ghciStreamAlive'
               /\ calls'[c].pc = "done"
               /\ calls'[c].resp = ErrorResponse(WriteFailed)
               /\ UNCHANGED <<nextPid, ghciProcess, isReconnecting>>
       /\ \A c \in Calls :
            (Submits(c) /\ ~ghciStreamAlive /\ ~isReconnecting) =>
               (InStartup(c)' /\ nextPid' = nextPid + 1)]_vars

\* a write failed on a subprocess that was still the handle, and the next
\* submit call has spawned the second subprocess
C15_Witness ==
    \E c, d \in Calls :
        /\ calls[c].pc = "done"
        /\ calls[c].resp = ErrorResponse(WriteFailed)
        /\ InStartup(d)
        /\ nextPid = 2
        /\ procs[1].state = "killed"

\* C16: a spawn failure, an unexpected exit and a destroyed stream never
\* terminate the host process.
C16_HostSurvives == phase # "crashed"

\* the call in slot c has been received and has no response yet
Pending(c) == calls[c].pc \in {"log", "file", "start", "write"}

\* C17: no error raised while an operation is handled terminates the host
\* process, so that no call is left without its response.
C17_EveryCallAnswered == \A c \in Calls : Pending(c) => phase \in {"connected", "closing", "exited"}

\* C18: a submit call that triggered a start never waits forever: the host
\* process lives to see the marker or the timeout of every startup wait.
C18_StartupWaitEnds == \A c \in Calls : ~(InStartup(c) /\ phase = "crashed")

----------------------------------------------------------------------------
(* The life of the manager: claims, checked under SpecLife *)

\* the state of the subprocess manager
ManagerState ==
    CASE phase = "exited" -> "Stopped"
      [] phase = "closing" -> "ShuttingDown"
      [] phase = "crashed" -> "Crashed"
      [] phase = "constructed" -> "Unstarted"
      [] phase = "starting" \/ \E c \in Calls : InStartup(c) -> "Starting"
      [] IsGhciHealthy -> "Ready"
      [] OTHER -> "Degraded"

\* a failure of the subprocess is detected in this step: one of its callbacks
\* fires, or a write to it fails
FailureDetected ==
    \/ CallbackFires /\ phase' = phase
    \/ \E c \in Calls : Responds(c) /\ calls[c].pc = "write" /\ calls'[c].resp.isError

\* C19: the manager reaches Stopped only from ShuttingDown, which it enters
\* from Ready only by the shutdown request; a failure detected in Ready moves
\* it to Degraded; it leaves Degraded only into Starting, apart from the
\* shutdown, with no other state in between, and the submit call that finds
\* it Degraded is the step that takes it to Starting.
C19_ManagerTransitions ==
    [][/\ ManagerState' = "Stopped" => ManagerState \in {"ShuttingDown", "Stopped"}
       /\ ManagerState = "Ready" =>
            /\ ManagerState' \in {"Ready", "Degraded", "ShuttingDown"}
            /\ FailureDetected => ManagerState' = "Degraded"
       /\ ManagerState = "Degraded" =>
            /\ ManagerState' \in {"Degraded", "Starting", "ShuttingDown"}
            /\ \A c \in Calls : Submits(c) => ManagerState' = "Starting"]_vars

\* the manager is in Starting again, on its second subprocess, after the
\* first one exited in Ready
C19_Witness ==
    /\ ManagerState = "Starting"
    /\ phase = "connected"
    /\ nextPid = 2
    /\ procs[1].state = "exited"

\* in the requests sigs no kill comes before an end-of-input
EndBeforeKill(sigs) ==
    \A i, j \in 1..Len(sigs) : (sigs[i] = "kill" /\ sigs[j] = "end") => j < i

\* C20: the shutdown of a host that holds a subprocess ends the stdin of that
\* subprocess, if it is not destroyed, and then kills it, in this order; no
\* subprocess is ever asked to end its input after it was killed.
C20_EndThenKill ==
    [][/\ (phase' = "closing" /\ phase # "closing" /\ ghciProcess # 0) =>
            LET old == procs[ghciProcess]
                new == procs'[ghciProcess]
            IN  /\ new.state = "killed"
                /\ new.stdin # "open"
                /\ old.stdin = "open" => new.signals = old.signals \o <<"end", "kill">>
                /\ old.stdin # "open" => new.signals = Append(old.signals, "kill")
       /\ \A p \in Pids : EndBeforeKill(procs'[p].signals)]_vars

\* the host shuts down while it holds its second subprocess, whose stdin was
\* open: it got the end-of-input and then the kill
C20_Witness ==
    /\ phase = "closing"
    /\ ghciProcess = 2
    /\ procs[2].signals = <<"end", "kill">>
    /\ procs[1].signals = <<"kill">>

\* cleanup runs in this step
CleanupRuns == phase # "closing" /\ phase' = "closing"

\* C21: when cleanup has run, no subprocess that the server spawned is left
\* running, whatever reconnects and failures happened before.
C21_CleanupKillsAll ==
    [][CleanupRuns => \A p \in Pids : procs'[p].state # "running"]_vars

----------------------------------------------------------------------------
(* The writes of a caller that awaits each call: claims, checked under SpecSeq *)

\* the call in slot c hands its command to stdin.write in this step
WriteIssued(c) == calls[c].pc # "write" /\ calls'[c].pc = "write"

\* C22: for a caller that awaits each call, a write is issued only by the one
\* call in flight, to the subprocess the handle names, as one write of that
\* call's whole command ended by a newline; a call issues one write and
\* waits for its callback, so the writes follow the order of the calls.
C22_WritesInCallOrder ==
    [][\A c \in Calls :
         /\ WriteIssued(c) =>
               /\ calls'[c].text = CommandOf(calls[c].req) \o "\n"
               /\ calls'[c].pid = ghciProcess'
               /\ ghciProcess' # 0
               /\ \A d \in Calls \ {c} : calls[d].pc = "idle" /\ calls'[d].pc = "idle"
         /\ calls[c].pc = "write" =>
               \/ calls'[c] = calls[c]
               \/ calls'[c].pc = "done"
         /\ calls[c].pc \in {"idle", "done"} => calls'[c].pc # "write"]_vars

\* the evaluate of a caller is written to the second subprocess, after the
\* reconnect that the call itself ran
C22_Witness ==
    \E c \in Calls :
        /\ calls[c].pc = "write"
        /\ calls[c].text = "d1 $ a\n"
        /\ calls[c].pid = 2
        /\ calls[c].spawns = 1

----------------------------------------------------------------------------
(* Overlapping calls in file mode: claims, checked under SpecPair *)

\* another call than the one in slot c takes a step
OtherCallSteps(c) == \E d \in Calls \ {c} : calls'[d] # calls[d]

\* C23 as stated: another operation interleaves with an operation only while
\* that operation awaits its file write, the acknowledgment of its stdin write
\* or the startup wait.
C23_ThreeSuspensionPoints ==
    [][\A c \in Calls :
         OtherCallSteps(c) => calls[c].pc \in {"idle", "done", "file", "write", "start"}]_vars

\* C23, amended: an operation is suspended only at its append to the session
\* log, at its file write, at the acknowledgment of its stdin write or at the
\* startup wait; a mutating operation starts by suspending at the log append
\* with the store and the history untouched; the store and the history change
\* only in the step in which an operation returns from its log append, and
\* that same step takes the operation to its sink suspension point or to its
\* response, with no suspension in between.
C23_FourSuspensionPoints ==
    [][/\ \A c \in Calls :
            /\ calls'[c].pc \in {"idle", "log", "file", "write", "start", "done"}
            /\ (calls[c].pc = "idle" /\ calls'[c].pc \notin {"idle", "done"}) =>
                  (calls'[c].pc = "log" /\ UNCHANGED storeVars)
            /\ Mutates(c) => calls'[c].pc \in {"file", "write", "start", "done"}
       /\ ~UNCHANGED storeVars => \E c \in Calls : Mutates(c)]_vars

\* one evaluate is suspended at its log append while the evaluate of another
\* caller, which arrived later, has updated the store and awaits its file
\* write
C23_Witness ==
    /\ calls[1].pc = "log"
    /\ calls[1].req.name = "tidal_eval"
    /\ calls[2].pc = "file"
    /\ calls[2].req = Request("tidal_eval", Args(TRUE, "d1", "a", FALSE, 0))
    /\ Channel(channels, "d1").active

\* the number k of channel identifier dk
ChannelNumber(id) == CHOOSE k \in 1..(NumChannels + 2) : ChannelName(k) = id

\* C24: get-state lists the active channels in channel-identifier order,
\* whatever the order in which they were evaluated.
C24_IdentifierOrder ==
    \A c \in Calls :
        (calls[c].pc = "done" /\ calls[c].req.name = "tidal_get_state" /\ ~calls[c].resp.isError) =>
           LET body == calls[c].resp.body
           IN  \A i, j \in DOMAIN body :
                   i < j => ChannelNumber(body[i].channel) < ChannelNumber(body[j].channel)

\* C29: an operation whose append to the session log failed goes on as one
\* whose append succeeded: the step that returns from the log append applies
\* the store update of the operation and issues its sink write, and the
\* operation ends with the confirmation of the operation when the sink write
\* succeeds and with the error of the sink write when it fails; no response
\* reports the log.
C29_LogFailureIgnored ==
    [][\A c \in Calls :
         /\ Mutates(c) =>
               /\ Mutate(calls[c].req)
               /\ calls'[c].pc = "file"
               /\ calls'[c].req = calls[c].req
         /\ (Completes(c) /\ calls[c].pc = "file") =>
               /\ UNCHANGED storeVars
               /\ \/ /\ calls'[c].resp = SuccessResponse(calls[c].req)
                     /\ tidalFile' = FileHeader \o CommandOf(calls[c].req) \o "\n"
                  \/ /\ calls'[c].resp = ErrorResponse(WriteFailed)
                     /\ UNCHANGED tidalFile]_vars

\* an evaluate whose log append failed has updated the store and the history,
\* written its command to the file and returned its confirmation
C29_Witness ==
    \E c \in Calls :
        /\ calls[c].pc = "done"
        /\ ~calls[c].logOk
        /\ calls[c].req = Request("tidal_eval", Args(TRUE, "d1", "a", FALSE, 0))
        /\ calls[c].resp = SuccessResponse(calls[c].req)
        /\ Channel(channels, "d1") = ChannelState("d1", "a", TRUE)
        /\ patternHistory # << >>
        /\ tidalFile = FileHeader \o "d1 $ a\n"

----------------------------------------------------------------------------
(* The output file and the tools that leave the store alone: claims, checked
   under Spec and SpecSeq *)

\* the file write of the call in slot c succeeds in this step
FileWritten(c) == calls[c].pc = "file" /\ calls'[c].pc = "done" /\ ~calls'[c].resp.isError

\* C30: in file mode the content of the output file changes only by the
\* successful write of a mutating operation, after which the file holds the
\* generated header followed by the command of that operation and a newline,
\* and nothing of what it held before.
C30_FileHoldsLastCommand ==
    [][/\ \A c \in Calls :
            FileWritten(c) => tidalFile' = FileHeader \o CommandOf(calls[c].req) \o "\n"
       /\ tidalFile' # tidalFile => \E c \in Calls : FileWritten(c)]_vars

\* hush has been written over the commands of two evaluations
C30_Witness ==
    \E c \in Calls :
        /\ calls[c].pc = "done"
        /\ calls[c].req.name = "tidal_hush"
        /\ ~calls[c].resp.isError
        /\ Len(patternHistory) = MaxHist
        /\ tidalFile = FileHeader \o "hush\n"

\* the call in slot c is a solo or an unsolo, and it takes a step
SoloSteps(c) ==
    /\ calls'[c] # calls[c]
    /\ \/ calls[c].req.name \in {"tidal_solo", "tidal_unsolo"}
       \/ calls'[c].req.name \in {"tidal_solo", "tidal_unsolo"}

\* C25: no step of a solo or an unsolo, from its start to its response,
\* changes the channel store or the history, whether its sink write succeeds
\* or fails.
C25_SoloLeavesStore ==
    [][\A c \in Calls : SoloSteps(c) => UNCHANGED storeVars]_vars

\* a solo has failed at the sink and another has succeeded before, each over
\* a store with an active channel
C25_Witness ==
    \E c \in Calls :
        /\ calls[c].pc = "done"
        /\ calls[c].req = Request("tidal_solo", Args(TRUE, "d1", Undef, FALSE, 0))
        /\ calls[c].resp = ErrorResponse(WriteFailed)
        /\ tidalFile = FileHeader \o "solo $ d1\n"
        /\ Channel(channels, "d2") = ChannelState("d2", "a", TRUE)

\* C26: get-state and get-history are answered in the step that receives
\* them, from the store and the history as they are: the step changes neither
\* of them, nor the output file, nor anything of the subprocess manager (no
\* spawn, no reconnect, no write), and the call never waits at a sink.
C26_PureReads ==
    [][\A c \in Calls :
         (calls'[c] # calls[c] /\ calls'[c].req.name \in {"tidal_get_state", "tidal_get_history"}) =>
            /\ calls[c].pc = "idle"
            /\ calls'[c].pc = "done"
            /\ calls'[c].resp =
                  IF calls'[c].req.name = "tidal_get_state"
                  THEN GetState(channels)
                  ELSE GetHistory(patternHistory, calls'[c].req.args)
            /\ UNCHANGED <<storeVars, tidalFile, ghciVars>>]_vars

\* get-state is answered with the active channel while the subprocess has
\* exited: the manager holds no handle and nothing was spawned for the read
C26_Witness ==
    \E c \in Calls :
        /\ calls[c].pc = "done"
        /\ calls[c].req.name = "tidal_get_state"
        /\ Lists(calls[c].resp, "d1", "a")
        /\ ghciProcess = 0
        /\ ~ghciStreamAlive
        /\ nextPid = 1

\* C27: the store update of a hush leaves every channel empty and inactive,
\* and a hush of the store it leaves changes nothing: two hushes in a row
\* leave the store as one does.
C27_HushIdempotent ==
    [][\A c \in Calls :
         (Mutates(c) /\ calls[c].req.name = "tidal_hush") =>
            /\ channels' = HushChannels(channels)
            /\ HushChannels(channels') = channels'
            /\ \A i \in DOMAIN channels' : channels'[i].pattern = "" /\ ~channels'[i].active]_vars

\* a second hush has updated the store after the hush before it was written
\* to the file, in a session that evaluated a channel outside d1..d9
C27_Witness ==
    \E c \in Calls :
        /\ calls[c].pc = "file"
        /\ calls[c].req.name = "tidal_hush"
        /\ tidalFile = FileHeader \o "hush\n"
        /\ Len(channels) > NumChannels
        /\ \A i \in DOMAIN channels : ~channels[i].active

\* the contents of an evaluate
Contents == {"a", "b", "", Undef}

\* C28: for every id in d1..d9 that is inactive and every content X,
\* evaluate(id, X), get-state and silence(id) leave the store as it was before
\* the evaluate: get-state lists id with X in between and changes nothing, and
\* after the silence id is empty and inactive and every other channel is as
\* before.
C28_EvaluateSilenceRoundTrip ==
    \A id \in ChannelEnum, X \in Contents :
        ~Channel(channels, id).active =>
           LET evaluated == EvalChannels(channels, id, X)
               silenced == SilenceChannels(evaluated, id)
           IN  /\ Lists(GetState(evaluated), id, X)
               /\ silenced = channels
               /\ Channel(silenced, id) = ChannelState(id, "", FALSE)
               /\ \A i \in DOMAIN channels :
                     channels[i].channel # id => silenced[i] = channels[i]

\* silence(d1) has completed after evaluate(d1, "b") was the last evaluation,
\* with d2 still active
C28_Witness ==
    \E c \in Calls :
        /\ calls[c].pc = "done"
        /\ calls[c].req = Request("tidal_silence", Args(TRUE, "d1", Undef, FALSE, 0))
        /\ ~calls[c].resp.isError
        /\ Len(patternHistory) = MaxHist
        /\ patternHistory[MaxHist] = [channel |-> "d1", pattern |-> "b"]
        /\ Channel(channels, "d1") = ChannelState("d1", "", FALSE)
        /\ Channel(channels, "d2") = ChannelState("d2", "a", TRUE)

\* an 'exit', stdin 'error' or stdin 'close' listener of subprocess p runs
\* after startGhci killed p and put another subprocess in its place
StaleEvent(p) ==
    /\ procs[p].state = "killed"
    /\ ghciProcess \notin {0, p}
    /\ procs'[p] # procs[p]
    /\ calls' = calls

\* C32: an exit, stdin-error or stdin-close event of a subprocess that the
\* manager has torn down and replaced changes neither the liveness flag nor
\* the process handle of the current subprocess.
C32_StaleEventsIgnored ==
    [][\A p \in Pids : StaleEvent(p) => UNCHANGED <<ghciStreamAlive, ghciProcess>>]_vars

\* the write of the call in slot c is the last one of the calls issued so
\* far: no other evaluate has still to write
LastWrite(c) ==
    /\ WriteIssued(c)
    /\ IsEval(calls[c].req)
    /\ \A d \in Calls \ {c} : calls'[d].pc \in {"idle", "write", "done"}
    /\ \A d \in Calls \ {c} : calls'[d].pc = "done" => ~calls'[d].resp.isError

\* C33: in subprocess mode, when the command of an evaluate is the last one
\* written to the subprocess and no sink write has failed, the store content
\* of its channel is the pattern of that command, also when the evaluate
\* calls overlap with a reconnect.
C33_StoreFollowsLastWrite ==
    [][\A c \in Calls :
         LastWrite(c) =>
            Channel(channels', calls[c].req.args.channel)
               = ChannelState(calls[c].req.args.channel, calls[c].req.args.pattern, TRUE)]_vars

\* C34: a command is written to the input stream of a subprocess only after
\* the startup wait of that subprocess has completed: no submit call writes
\* while the manager is in Starting, except the one whose startup wait ends.
C34_NoWriteWhileStarting ==
    [][\A c \in Calls :
         WriteIssued(c) => (ManagerState # "Starting" \/ InStartup(c))]_vars

\* the startup wait of the reconnect of the call in slot c ends in this step
ReconnectEnds(c) == InStartup(c) /\ calls'[c].pc # "start"

\* the call in slot c is answered with the error message in this step
RejectedWith(c, message) == Responds(c) /\ calls'[c].resp = ErrorResponse(message)

\* C35: the reconnecting flag is true only while the reconnect of some submit
\* call is in progress: a reconnect whose startup wait ends and a reconnect
\* whose spawn throws leave the flag cleared, and a submit is rejected as
\* "reconnecting" only while the reconnect of another call is running.
C35_FlagOnlyWhileReconnecting ==
    [][/\ isReconnecting => \E c \in Calls : InStartup(c)
       /\ isReconnecting' => \E c \in Calls : calls'[c].pc = "start"
       /\ \A c \in Calls :
             /\ ReconnectEnds(c) => ~isReconnecting'
             /\ RejectedWith(c, FailedToReconnect) => ~isReconnecting'
             /\ RejectedWith(c, CurrentlyReconnecting) =>
                   \E d \in Calls \ {c} : InStartup(d)]_vars

\* a reconnect has thrown, a later reconnect has succeeded and its call has
\* written, and the flag is clear
C35_Witness ==
    \E c, d \in Calls :
        /\ calls[c].pc = "done"
        /\ calls[c].resp = ErrorResponse(FailedToReconnect)
        /\ calls[d].pc = "write"
        /\ calls[d].spawns = 1
        /\ ~isReconnecting

\* the indices of the history entries of channel id
EntriesOf(id) == {i \in DOMAIN patternHistory : patternHistory[i].channel = id}

\* C36: in every state that another operation can observe, the store content
\* of every active channel is the pattern of the most recent history entry of
\* that channel.
C36_StoreMatchesHistory ==
    \A i \in DOMAIN channels :
        channels[i].active =>
           /\ EntriesOf(channels[i].channel) # {}
           /\ \E k \in EntriesOf(channels[i].channel) :
                 /\ \A j \in EntriesOf(channels[i].channel) : j <= k
                 /\ patternHistory[k].pattern = channels[i].pattern

\* a second evaluate on d1 has updated the store and the history while the
\* first one still waits for its reconnect
C36_Witness ==
    \E c, d \in Calls :
        /\ InStartup(c)
        /\ calls[d].pc \in {"write", "done"}
        /\ IsEval(calls[d].req)
        /\ patternHistory = <<[channel |-> "d1", pattern |-> "a"], [channel |-> "d1", pattern |-> "b"]>>
        /\ Channel(channels, "d1") = ChannelState("d1", "b", TRUE)

\* the tools whose schema requires no argument
NoArgumentTools == {"tidal_hush", "tidal_unsolo", "tidal_get_state", "tidal_get_history"}

\* C37: hush, unsolo, get-state and get-history succeed when the call carries
\* no arguments object at all: the call is not answered with an error, and
\* the answer to hush finds every record of the store inactive.
C37_NoArgumentsAccepted ==
    [][\A c \in Calls :
         (Responds(c) /\ calls'[c].req.name \in NoArgumentTools /\ ~calls'[c].req.args.present) =>
            /\ ~calls'[c].resp.isError
            /\ calls'[c].req.name = "tidal_hush" =>
                  \A i \in DOMAIN channels' : ~channels'[i].active]_vars

----------------------------------------------------------------------------
(* The WebSocket heartbeat: claims, checked under SpecHeartbeat *)

\* the interval callback runs in this step and sends a ping
PingSent == pings' # pings

\* the heartbeat closes the connection in this step
HeartbeatCloses == PingSent /\ readyState' = "CLOSING"

\* a ping sent at least one ping interval ago has had no pong or ping since
UnansweredPing ==
    \E i \in DOMAIN pings : pings[i] + PingIntervalMs <= now /\ lastPing < pings[i]

\* C31: the server pings a connected client every 30 seconds: each run of the
\* interval callback on an open connection sends one ping, and two pings in
\* a row are at least 30 s apart; a connection whose last pong or ping is
\* more than 60 s old at a run of the callback is closed by it, so that no
\* open connection is silent for longer than 60 s plus one interval (and one
\* step of timer delay); and the heartbeat closes a connection only when a
\* ping sent at least 30 s before has had no answer.
C31_Heartbeat ==
    [][/\ PingSent =>
            /\ pings' = Append(pings, now)
            /\ pings # << >> => now - pings[Len(pings)] >= PingIntervalMs
            /\ now >= PingIntervalMs
            /\ now - lastPing > StaleAfterMs => HeartbeatCloses /\ pingInterval' = Cleared
            /\ HeartbeatCloses => now - lastPing > StaleAfterMs /\ UnansweredPing
       /\ (now' # now /\ readyState = "OPEN" /\ pingInterval # Cleared) =>
            /\ now' - lastPing <= StaleAfterMs + PingIntervalMs + ClockStep
            /\ now' <= pingInterval + ClockStep
       /\ (readyState = "OPEN" /\ readyState' = "OPEN") =>
            (pingInterval # Cleared /\ pingInterval' # Cleared)]_vars

\* the heartbeat has closed a connection that answered the first ping and
\* then fell silent
C31_Witness ==
    /\ readyState = "CLOSING"
    /\ pingInterval = Cleared
    /\ Len(pings) >= 3
    /\ lastPing >= pings[1]
    /\ now - lastPing > StaleAfterMs

----------------------------------------------------------------------------
(* The WebSocket client transport: claims, checked under SpecClient *)

\* C38: after close() has been called on the client transport no reconnect
\* timer is pending, also after the close event that the close itself causes.
C38_NoReconnectAfterClose == closeCalled => timers = {}

\* scheduleReconnect runs in this step
Schedules == ws # "CLOSED" /\ ws' = "CLOSED"

\* C39: the delay of the reconnect timer set after reconnectAttempts = n
\* failed attempts is min(1000 * 2^n, 30000) ms: it is at most 30000, it is
\* not below the delay before it while attempts fail in a row, it is 1000
\* after an open, which sets the count back to 0, and at most one reconnect
\* timer is pending at any time.
C39_ReconnectDelay ==
    [][/\ Schedules =>
            /\ reconnectTimer'.delay =
                  Min(BaseReconnectDelay * Pow2(reconnectAttempts), MaxReconnectDelay)
            /\ reconnectTimer' \in timers'
            /\ reconnectTimer'.delay <= MaxReconnectDelay
            /\ reconnectAttempts > 0 => reconnectTimer'.delay >= reconnectTimer.delay
            /\ reconnectAttempts = 0 => reconnectTimer'.delay = BaseReconnectDelay
       /\ ws' = "OPEN" => reconnectAttempts' = 0
       /\ Cardinality(timers) <= 1
       /\ Cardinality(timers') <= 1]_vars

\* the timer after five failed attempts in a row is pending, with the
\* longest delay
C39_Witness ==
    /\ reconnectAttempts = 5
    /\ reconnectTimer \in timers
    /\ reconnectTimer.delay = MaxReconnectDelay
    /\ ws = "CLOSED"
    /\ ~closeCalled

====
